---- MODULE Spec2Model ----
(***************************************************************************)
(* Hunter vs Hunted: the browser client (src/app.js) and the position      *)
(* relay (src/worker.js).                                                  *)
(*                                                                         *)
(* Time is Date.now() in milliseconds.  Coordinates are integers in units  *)
(* of 1/UnitsPerDegree degree; with R * pi / 180 = 111194.93 m rounded to  *)
(* 111195 m per degree one unit is MetresPerUnit = 5 m of arc, so the      *)
(* haversine distance of two points a few units apart near (0, 0) is       *)
(* MetresPerUnit * sqrt(dlat^2 + dlon^2) up to a relative error below      *)
(* 1e-6.  Texts are sequences of characters.  A nullable value is the      *)
(* empty sequence (null) or a one-element sequence.                        *)
(*                                                                         *)
(* Write-only page elements that no handler reads back (toast, accuracy    *)
(* display, player count, last-update clock, name and role badges, map     *)
(* view) are not part of the state.                                        *)
(***************************************************************************)
EXTENDS Integers, Sequences, FiniteSets, Bags, TLC

VARIABLES
    now,             \* Date.now() of the browser / the relay
    playerId,        \* gameState.playerId (<<>> is null)
    playerName,      \* gameState.playerName
    playerRole,      \* gameState.playerRole ("" is null)
    gameCode,        \* gameState.gameCode
    isActive,        \* gameState.isActive
    startTime,       \* gameState.startTime (0 is null)
    map,             \* gameState.map exists
    playerMarker,    \* gameState.playerMarker and accuracyCircle: null or <<[lat, lon, radius]>>
    otherMarkers,    \* gameState.otherMarkers: playerId -> <<lat, lon>>
    updateInterval,  \* gameState.updateInterval (0 is null)
    timerInterval,   \* gameState.timerInterval (0 is null)
    lastPosition,    \* gameState.lastPosition: null or <<[lat, lon, accuracy, timestamp]>>
    watchId,         \* gameState.watchId (0 is null)
    screens,         \* the screens that carry the class "active"
    timerEl,         \* the timer element: [text, className]
    endTitle,        \* the end screen's title
    endMessage,      \* the end screen's message
    loops,           \* gameLoop invocations suspended on a relay call (a bag)
    sessions,        \* number of ids generateId has produced
    ev,              \* history: what the last handler did
    gameData,        \* relay: gameCode -> playerId -> record
    rateLimitMap,    \* relay: ip -> [count, resetTime]
    pending,         \* relay: POST requests suspended on request.json()
    receipt,         \* history: relay time at which each stored record was received
    response,        \* history: the relay's last answer
    windows          \* history: ip -> [opened, accepted], the ip's last window

vars == <<now, playerId, playerName, playerRole, gameCode, isActive, startTime,
          map, playerMarker, otherMarkers, updateInterval, timerInterval,
          lastPosition, watchId, screens, timerEl, endTitle, endMessage, loops,
          sessions, ev, gameData, rateLimitMap, pending, receipt, response,
          windows>>

clientVars == <<playerId, playerName, playerRole, gameCode, isActive, startTime,
                map, playerMarker, otherMarkers, updateInterval, timerInterval,
                lastPosition, watchId, screens, timerEl, endTitle, endMessage,
                loops, sessions, ev>>

relayVars == <<gameData, rateLimitMap, pending, receipt, response, windows>>

----------------------------------------------------------------------------
(* Bounds of the model *)

MaxSessions == 2     \* sessions started per run
MaxLoops == 2        \* gameLoop invocations in flight at once
MaxSnap == 2         \* records in one snapshot
MaxPending == 1      \* relay requests suspended at once
MaxRequests == 2     \* requests of one address in one rate-limit window

----------------------------------------------------------------------------
(* CONFIG of src/app.js *)

UPDATE_INTERVAL == 5000
POSITION_DELAY == 120000
GAME_DURATION == 600000
CAPTURE_DISTANCE == 50
MAX_ACCURACY_THRESHOLD == 100

UnitsPerDegree == 22239
MetresPerUnit == 5

NULL == <<>>

\* The empty object or Map.
EmptyMap == [x \in {} |-> x]
Some(x) == <<x>>

NoHandle == 0
Handle == 1

Roles == {"hunter", "hunted"}

----------------------------------------------------------------------------
(* Texts *)

RECURSIVE trimStart(_)
trimStart(s) ==
    IF s # <<>> /\ Head(s) = " " THEN trimStart(Tail(s)) ELSE s

RECURSIVE trimEnd(_)
trimEnd(s) ==
    IF s # <<>> /\ s[Len(s)] = " " THEN trimEnd(SubSeq(s, 1, Len(s) - 1)) ELSE s

\* Mutation: the text is taken as typed.
trim_AsTyped(s) == s

trim(s) == trimEnd(trimStart(s))

upperChar(c) == IF c = "a" THEN "A" ELSE IF c = "b" THEN "B" ELSE c

toUpperCase(s) == [i \in 1..Len(s) |-> upperChar(s[i])]

slice(s, n) == SubSeq(s, 1, IF Len(s) < n THEN Len(s) ELSE n)

----------------------------------------------------------------------------
(* Utility functions *)

\* 'p_' + Date.now() + '_' + random: a text no earlier call has returned.
generateId(n) == <<"p", n + 1>>

RECURSIVE CeilSqrtFrom(_, _)
CeilSqrtFrom(x, n) == IF n * n >= x THEN n ELSE CeilSqrtFrom(x, n + 1)

\* The distance in metres, rounded up: d <= k metres iff the result is <= k.
calculateDistance(lat1, lon1, lat2, lon2) ==
    LET dphi == (lat2 - lat1) * MetresPerUnit
        dlambda == (lon2 - lon1) * MetresPerUnit
    IN  CeilSqrtFrom(dphi * dphi + dlambda * dlambda, 0)

padStart2(n) == <<(n \div 10) % 10, n % 10>>

\* Mutation: the seconds are rounded up.
formatTime_Ceil(milliseconds) ==
    LET totalSeconds == (milliseconds + 999) \div 1000
        minutes == totalSeconds \div 60
        seconds == totalSeconds % 60
    IN  <<minutes>> \o padStart2(seconds)

formatTime(milliseconds) ==
    LET totalSeconds == milliseconds \div 1000
        minutes == totalSeconds \div 60
        seconds == totalSeconds % 60
    IN  <<minutes>> \o padStart2(seconds)

timerClass(remaining) ==
    IF remaining < 60000 THEN "timer danger"
    ELSE IF remaining < 180000 THEN "timer warning"
    ELSE "timer"

----------------------------------------------------------------------------
(* Inputs of the client: what the user types, what the location provider   *)
(* delivers, what the relay answers.                                       *)

Epoch == 200000
TimePoints == {Epoch, Epoch + GAME_DURATION - 1, Epoch + GAME_DURATION}

NameInputs == {<<>>, <<" ">>, <<"a">>}
CodeInputs == {<<>>, <<" ">>, <<"a", " ">>}
RoleInputs == {""} \cup Roles

GpsSamples == [latitude : {0}, longitude : {0}, accuracy : {100, 101}]

P1 == <<"p", 1>>
P101 == <<"p", 101>>
P102 == <<"p", 102>>

\* Receipt times that are POSITION_DELAY and POSITION_DELAY - 1 old at Epoch.
Stamps == {Epoch - POSITION_DELAY, Epoch - POSITION_DELAY + 1}

SnapshotRecords ==
    [playerId : {P1}, playerName : {<<"a">>}, role : {"hunted"}, gameCode : {<<"A">>},
     lat : {10}, lon : {0}, accuracy : {10}, timestamp : {Epoch - POSITION_DELAY}]
    \cup
    [playerId : {P101}, playerName : {<<"k">>}, role : Roles, gameCode : {<<"A">>},
     lat : {10}, lon : {0, 1}, accuracy : {10}, timestamp : Stamps]
    \cup
    [playerId : {P102}, playerName : {<<"j">>}, role : {"hunted"}, gameCode : {<<"A">>},
     lat : {10}, lon : {0}, accuracy : {10}, timestamp : {Epoch - POSITION_DELAY}]

\* A snapshot is the relay's Array.from(game.values()): one record per playerId.
Snapshots ==
    {s \in UNION {[1..k -> SnapshotRecords] : k \in 0..MaxSnap} :
        \A i, j \in DOMAIN s : i # j => s[i].playerId # s[j].playerId}

\* What getLocations() resolves to: null on a failure, else data.locations.
Responses == {NULL} \cup {Some(s) : s \in Snapshots}

Near101 ==
    [playerId |-> P101, playerName |-> <<"k">>, role |-> "hunted", gameCode |-> <<"A">>,
     lat |-> 10, lon |-> 0, accuracy |-> 10, timestamp |-> Epoch - POSITION_DELAY]

Far101 ==
    [playerId |-> P101, playerName |-> <<"k">>, role |-> "hunter", gameCode |-> <<"A">>,
     lat |-> 10, lon |-> 1, accuracy |-> 10, timestamp |-> Epoch - POSITION_DELAY + 1]

\* The answers used where the session's life cycle, not the snapshot, varies.
FewResponses == {NULL, Some(<<>>), Some(<<Near101>>), Some(<<Far101>>)}

----------------------------------------------------------------------------
(* History of the last handler *)

Event(op) ==
    [op |-> op, active |-> isActive, applied |-> FALSE, sent |-> FALSE,
     data |-> NULL, rendered |-> {}, evaluated |-> {},
     captured |-> <<>>, prevMarkers |-> otherMarkers, prevTitle |-> endTitle,
     prevMessage |-> endMessage, prevPos |-> lastPosition]

----------------------------------------------------------------------------
(* updateOtherPlayers *)

\* Mutation: the team filter is dropped.
isOpponent_AnyRole(myRole, role) == role \in Roles

isOpponent(myRole, role) ==
    \/ myRole = "hunter" /\ role = "hunted"
    \/ myRole = "hunted" /\ role = "hunter"

\* Mutation: no record is held back.
tooRecent_Never(age) == FALSE

\* Mutation: a record exactly POSITION_DELAY old is still hidden.
tooRecent_AtDelay(age) == age <= POSITION_DELAY

tooRecent(age) == age < POSITION_DELAY

captureChecked(role, position) == role = "hunter" /\ position # NULL

\* Mutation: the capture radius is exclusive.
withinCapture_Strict(distance) == distance < CAPTURE_DISTANCE

\* Mutation: no capture once the game time is over.
withinCapture_InTime(distance) ==
    distance <= CAPTURE_DISTANCE /\ now - startTime < GAME_DURATION

withinCapture(distance) == distance <= CAPTURE_DISTANCE

setMarker(markers, id, latlng) ==
    [p \in DOMAIN markers \cup {id} |-> IF p = id THEN latlng ELSE markers[p]]

\* Mutation: no marker is ever removed.
removeLeft_Keeps(markers, currentPlayerIds) == markers

removeLeft(markers, currentPlayerIds) ==
    [p \in DOMAIN markers \cap currentPlayerIds |-> markers[p]]

\* One pass of locations.forEach: the markers, the ids seen as opponents, the
\* ids whose marker was set, those whose distance was computed and, in order,
\* the players for which endGame('victory', ...) is called.
RECURSIVE forEachPlayer(_, _, _)
forEachPlayer(locations, i, acc) ==
    IF i > Len(locations) THEN acc
    ELSE LET player == locations[i]
             age == now - player.timestamp
             seen == [acc EXCEPT !.currentPlayerIds = @ \cup {player.playerId}]
             shown == [seen EXCEPT
                         !.markers = setMarker(@, player.playerId, <<player.lat, player.lon>>),
                         !.rendered = @ \cup {player.playerId}]
             checked == [shown EXCEPT !.evaluated = @ \cup {player.playerId}]
             won == [checked EXCEPT !.captured = Append(@, player)]
         IN  IF player.playerId = playerId THEN forEachPlayer(locations, i + 1, acc)
             ELSE IF ~isOpponent(playerRole, player.role) THEN forEachPlayer(locations, i + 1, acc)
             ELSE IF tooRecent(age) THEN forEachPlayer(locations, i + 1, seen)
             ELSE IF ~captureChecked(playerRole, lastPosition) THEN forEachPlayer(locations, i + 1, shown)
             ELSE IF withinCapture(calculateDistance(lastPosition[1].lat, lastPosition[1].lon,
                                                     player.lat, player.lon))
                  THEN forEachPlayer(locations, i + 1, won)
                  ELSE forEachPlayer(locations, i + 1, checked)

scanPlayers(locations) ==
    forEachPlayer(locations, 1,
        [markers |-> otherMarkers, currentPlayerIds |-> {}, rendered |-> {},
         evaluated |-> {}, captured |-> <<>>])

----------------------------------------------------------------------------
(* endGame *)

clearInterval(handle) == NoHandle

\* Mutation: the position watch is not cleared.
stopGPSTracking_Keeps(id) == id

stopGPSTracking(id) == NoHandle

endTitleFor(reason) ==
    IF reason = "victory" THEN "Victory!"
    ELSE IF reason = "timeout" THEN "Time's Up!"
    ELSE "Game Over"

endGame(reason, message) ==
    /\ isActive' = FALSE
    /\ updateInterval' = clearInterval(updateInterval)
    /\ timerInterval' = clearInterval(timerInterval)
    /\ watchId' = stopGPSTracking(watchId)
    /\ endTitle' = endTitleFor(reason)
    /\ endMessage' = message
    /\ screens' = (screens \ {"game"}) \cup {"end"}

notEnded ==
    UNCHANGED <<isActive, updateInterval, timerInterval, watchId, endTitle,
                endMessage, screens>>

----------------------------------------------------------------------------
(* The client's handlers *)

\* gameLoop up to its first await: the upsert when a position exists, else
\* the snapshot request.
gameLoopCall(position, session) ==
    [pc |-> IF position # NULL THEN "updateLocation" ELSE "getLocations",
     session |-> session]

\* Mutation: the game runs one millisecond longer.
timeUp_Late(remaining) == remaining < 0

timeUp(remaining) == remaining <= 0

startGame(nameInput, codeInput, selectedRole) ==
    LET name == trim(nameInput)
        code == toUpperCase(trim(codeInput))
    IN  /\ "start" \in screens
        /\ IF name = <<>> \/ code = <<>> \/ selectedRole = ""
           THEN /\ ev' = Event("startGame")
                /\ UNCHANGED <<playerId, playerName, playerRole, gameCode, isActive,
                               startTime, map, playerMarker, otherMarkers,
                               updateInterval, timerInterval, lastPosition, watchId,
                               screens, timerEl, endTitle, endMessage, loops, sessions>>
           ELSE /\ playerId' = generateId(sessions)
                /\ sessions' = sessions + 1
                /\ playerName' = name
                /\ playerRole' = selectedRole
                /\ gameCode' = code
                /\ isActive' = TRUE
                /\ startTime' = now
                /\ screens' = (screens \ {"start"}) \cup {"game"}
                /\ map' = TRUE
                /\ watchId' = Handle
                /\ loops' = loops (+) SetToBag({gameLoopCall(lastPosition, playerId')})
                /\ updateInterval' = Handle
                /\ timerEl' = [text |-> formatTime(GAME_DURATION - (now - startTime')),
                               className |-> timerClass(GAME_DURATION - (now - startTime'))]
                /\ timerInterval' = Handle
                /\ ev' = [Event("startGame") EXCEPT !.sent = TRUE]
                /\ UNCHANGED <<playerMarker, otherMarkers, lastPosition, endTitle,
                               endMessage>>
    /\ UNCHANGED <<now, relayVars>>

\* setInterval(gameLoop, UPDATE_INTERVAL) fires.
gameLoopTick ==
    /\ updateInterval # NoHandle
    /\ loops' = loops (+) SetToBag({gameLoopCall(lastPosition, playerId)})
    /\ ev' = [Event("gameLoop") EXCEPT !.sent = TRUE]
    /\ UNCHANGED <<now, playerId, playerName, playerRole, gameCode, isActive, startTime,
                   map, playerMarker, otherMarkers, updateInterval, timerInterval,
                   lastPosition, watchId, screens, timerEl, endTitle, endMessage,
                   sessions, relayVars>>

\* visibilitychange to visible: gameLoop() when the session is active.
visibilityResume ==
    /\ isActive
    /\ loops' = loops (+) SetToBag({gameLoopCall(lastPosition, playerId)})
    /\ ev' = [Event("visibilitychange") EXCEPT !.sent = TRUE]
    /\ UNCHANGED <<now, playerId, playerName, playerRole, gameCode, isActive, startTime,
                   map, playerMarker, otherMarkers, updateInterval, timerInterval,
                   lastPosition, watchId, screens, timerEl, endTitle, endMessage,
                   sessions, relayVars>>

\* await updateLocation(...) returns (the response or null): gameLoop goes on
\* to getLocations().
updateLocationDone(l) ==
    /\ l \in BagToSet(loops)
    /\ l.pc = "updateLocation"
    /\ loops' = (loops (-) SetToBag({l})) (+) SetToBag({[l EXCEPT !.pc = "getLocations"]})
    /\ ev' = [Event("updateLocationDone") EXCEPT !.sent = TRUE]
    /\ UNCHANGED <<now, playerId, playerName, playerRole, gameCode, isActive, startTime,
                   map, playerMarker, otherMarkers, updateInterval, timerInterval,
                   lastPosition, watchId, screens, timerEl, endTitle, endMessage,
                   sessions, relayVars>>

\* Mutation: snapshots are ignored until an own position exists.
applies_WithPosition(data) == data # NULL /\ map /\ lastPosition # NULL

applies(data) == data # NULL /\ map

\* await getLocations() returns data (null on a failure): updateOtherPlayers.
getLocationsDone(l, data) ==
    /\ l \in BagToSet(loops)
    /\ l.pc = "getLocations"
    /\ loops' = loops (-) SetToBag({l})
    /\ IF applies(data)
       THEN LET r == scanPlayers(data[1])
            IN  /\ otherMarkers' = removeLeft(r.markers, r.currentPlayerIds)
                /\ IF r.captured # <<>>
                   THEN endGame("victory", <<"You captured", r.captured[Len(r.captured)].playerName>>)
                   ELSE notEnded
                /\ ev' = [Event("getLocationsDone") EXCEPT
                            !.applied = TRUE, !.data = data,
                            !.rendered = r.rendered, !.evaluated = r.evaluated,
                            !.captured = r.captured]
       ELSE /\ notEnded
            /\ ev' = [Event("getLocationsDone") EXCEPT !.data = data]
            /\ UNCHANGED otherMarkers
    /\ UNCHANGED <<now, playerId, playerName, playerRole, gameCode, startTime, map,
                   playerMarker, lastPosition, timerEl, sessions, relayVars>>

\* setInterval(updateTimer, 1000) fires.
updateTimer ==
    /\ timerInterval # NoHandle
    /\ LET elapsed == now - startTime
           remaining == GAME_DURATION - elapsed
       IN  IF timeUp(remaining)
           THEN /\ endGame("timeout", <<"Time's up! Hunted players survived.">>)
                /\ UNCHANGED timerEl
           ELSE /\ timerEl' = [text |-> formatTime(remaining),
                               className |-> timerClass(remaining)]
                /\ notEnded
    /\ ev' = Event("updateTimer")
    /\ UNCHANGED <<now, playerId, playerName, playerRole, gameCode, startTime, map,
                   playerMarker, otherMarkers, lastPosition, loops, sessions, relayVars>>

\* Mutation: a sample exactly at the threshold is refused.
accurate_Below(accuracy) == accuracy < MAX_ACCURACY_THRESHOLD

accurate(accuracy) == ~(accuracy > MAX_ACCURACY_THRESHOLD)

handlePositionSuccess(coords) ==
    /\ watchId # NoHandle
    /\ IF accurate(coords.accuracy)
       THEN /\ lastPosition' = Some([lat |-> coords.latitude, lon |-> coords.longitude,
                                     accuracy |-> coords.accuracy, timestamp |-> now])
            /\ playerMarker' = IF map
                               THEN Some([lat |-> coords.latitude, lon |-> coords.longitude,
                                          radius |-> coords.accuracy])
                               ELSE playerMarker
       ELSE UNCHANGED <<lastPosition, playerMarker>>
    /\ ev' = Event("handlePositionSuccess")
    /\ UNCHANGED <<now, playerId, playerName, playerRole, gameCode, isActive, startTime,
                   map, otherMarkers, updateInterval, timerInterval, watchId, screens,
                   timerEl, endTitle, endMessage, loops, sessions, relayVars>>

\* Mutation: a provider error releases the position watch.
handlePositionError_Stops ==
    /\ watchId # NoHandle
    /\ watchId' = NoHandle
    /\ ev' = Event("handlePositionError")
    /\ UNCHANGED <<now, playerId, playerName, playerRole, gameCode, isActive, startTime,
                   map, playerMarker, otherMarkers, updateInterval, timerInterval,
                   lastPosition, screens, timerEl, endTitle, endMessage, loops,
                   sessions, relayVars>>

handlePositionError ==
    /\ watchId # NoHandle
    /\ ev' = Event("handlePositionError")
    /\ UNCHANGED <<now, playerId, playerName, playerRole, gameCode, isActive, startTime,
                   map, playerMarker, otherMarkers, updateInterval, timerInterval,
                   lastPosition, watchId, screens, timerEl, endTitle, endMessage, loops,
                   sessions, relayVars>>

leaveGame(confirmed) ==
    /\ "game" \in screens
    /\ IF confirmed THEN endGame("left", <<"You left the game.">>) ELSE notEnded
    /\ ev' = Event("leaveGame")
    /\ UNCHANGED <<now, playerId, playerName, playerRole, gameCode, startTime, map,
                   playerMarker, otherMarkers, lastPosition, timerEl, loops, sessions,
                   relayVars>>

\* Mutation: the own position and the markers outlive the session.
newGame_KeepsState ==
    /\ "end" \in screens
    /\ map' = FALSE
    /\ playerMarker' = NULL
    /\ screens' = (screens \ {"end"}) \cup {"start"}
    /\ ev' = Event("newGame")
    /\ UNCHANGED <<now, playerId, playerName, playerRole, gameCode, isActive, startTime,
                   updateInterval, timerInterval, watchId, timerEl, endTitle, endMessage,
                   loops, sessions, relayVars, otherMarkers, lastPosition>>

newGame ==
    /\ "end" \in screens
    /\ map' = FALSE
    /\ playerMarker' = NULL
    /\ otherMarkers' = EmptyMap
    /\ lastPosition' = NULL
    /\ screens' = (screens \ {"end"}) \cup {"start"}
    /\ ev' = Event("newGame")
    /\ UNCHANGED <<now, playerId, playerName, playerRole, gameCode, isActive, startTime,
                   updateInterval, timerInterval, watchId, timerEl, endTitle, endMessage,
                   loops, sessions, relayVars>>

\* Time passes.
advanceClock(t) ==
    /\ t > now
    /\ now' = t
    /\ ev' = Event("clock")
    /\ UNCHANGED <<playerId, playerName, playerRole, gameCode, isActive, startTime,
                   map, playerMarker, otherMarkers, updateInterval, timerInterval,
                   lastPosition, watchId, screens, timerEl, endTitle, endMessage, loops,
                   sessions, relayVars>>

----------------------------------------------------------------------------
(* The relay, src/worker.js *)

MAX_POSITION_AGE == 900000
RATE_LIMIT == 60
RATE_WINDOW == 60000

LatMax == 90 * UnitsPerDegree
LonMax == 180 * UnitsPerDegree

\* JSON values of a request body: the type tag comes first.
Missing == <<"undefined">>
Num(n) == <<"number", n>>
Str(t) == <<"string", t>>

isNullish(v) == v[1] = "undefined" \/ v[1] = "null"

\* String(v)
String(v) == IF v[1] = "string" THEN v[2] ELSE <<v[2]>>

\* v || 0
orZero(v) == IF isNullish(v) \/ v = Num(0) \/ v = Str(<<>>) THEN 0 ELSE v[2]

required == <<"playerId", "playerName", "role", "gameCode", "lat", "lon", "timestamp">>

RECURSIVE firstMissing(_, _)
firstMissing(data, i) ==
    IF i > Len(required) THEN ""
    ELSE IF isNullish(data[required[i]]) THEN required[i]
    ELSE firstMissing(data, i + 1)

\* Mutation: the poles are refused.
validLat_Open(v) == v[1] = "number" /\ v[2] > -LatMax /\ v[2] < LatMax

validLat(v) == ~(v[1] # "number" \/ v[2] < -LatMax \/ v[2] > LatMax)

validLon(v) == ~(v[1] # "number" \/ v[2] < -LonMax \/ v[2] > LonMax)

\* Mutation: any role is taken.
validRole_Any(v) == TRUE

validRole(v) == v \in {Str("hunter"), Str("hunted")}

\* The error of the 400 answer, or "" when the body is accepted.
validate(data) ==
    IF firstMissing(data, 1) # "" THEN "Missing required field"
    ELSE IF ~validLat(data.lat) THEN "Invalid latitude"
    ELSE IF ~validLon(data.lon) THEN "Invalid longitude"
    ELSE IF ~validRole(data.role) THEN "Invalid role"
    ELSE ""

sanitizeGameCode(t) == slice(toUpperCase(t), 10)

storedTimestamp(data, receivedAt) == data.timestamp[2]

playerData(data, receivedAt) ==
    [playerId |-> slice(String(data.playerId), 50),
     playerName |-> slice(String(data.playerName), 20),
     role |-> data.role[2],
     gameCode |-> sanitizeGameCode(String(data.gameCode)),
     lat |-> data.lat[2],
     lon |-> data.lon[2],
     accuracy |-> orZero(data.accuracy),
     timestamp |-> storedTimestamp(data, receivedAt)]

\* A game is a Map playerId -> record: the records in insertion order.
hasPlayer(game, id) == \E i \in DOMAIN game : game[i].playerId = id

\* Mutation: an upsert without accuracy keeps the accuracy of the record it
\* replaces.
gameSet_Merge(game, record) ==
    IF hasPlayer(game, record.playerId)
    THEN [i \in DOMAIN game |->
             IF game[i].playerId = record.playerId
             THEN [record EXCEPT !.accuracy = IF @ = 0 THEN game[i].accuracy ELSE @]
             ELSE game[i]]
    ELSE Append(game, record)

\* Mutation: an upsert leaves its record alone in the game.
gameSet_Alone(game, record) == <<record>>

\* Mutation: the first upsert of a player wins.
gameSet_FirstWins(game, record) ==
    IF hasPlayer(game, record.playerId) THEN game ELSE Append(game, record)

\* Mutation: every upsert adds a record.
gameSet_Append(game, record) == Append(game, record)

gameSet(game, record) ==
    IF hasPlayer(game, record.playerId)
    THEN [i \in DOMAIN game |->
             IF game[i].playerId = record.playerId THEN record ELSE game[i]]
    ELSE Append(game, record)

\* Mutation: an unknown code falls back to some stored game.
getGame_Any(data, code) ==
    IF code \in DOMAIN data THEN data[code]
    ELSE IF DOMAIN data = {} THEN <<>>
    ELSE data[CHOOSE c \in DOMAIN data : TRUE]

getGame(data, code) == IF code \in DOMAIN data THEN data[code] ELSE <<>>

putGame(data, code, game) ==
    [c \in DOMAIN data \cup {code} |-> IF c = code THEN game ELSE data[c]]

\* Mutation: the limit is reached one request later.
checkRateLimit_OneMore(limits, ip, t) ==
    IF ip \notin DOMAIN limits \/ t > limits[ip].resetTime
    THEN [ok |-> TRUE,
          limits |-> [i \in DOMAIN limits \cup {ip} |->
                         IF i = ip THEN [count |-> 1, resetTime |-> t + RATE_WINDOW]
                         ELSE limits[i]]]
    ELSE IF limits[ip].count > RATE_LIMIT
    THEN [ok |-> FALSE, limits |-> limits]
    ELSE [ok |-> TRUE, limits |-> [limits EXCEPT ![ip].count = @ + 1]]

\* Mutation: a rejected request is counted too.
checkRateLimit_CountsRejected(limits, ip, t) ==
    IF ip \notin DOMAIN limits \/ t > limits[ip].resetTime
    THEN [ok |-> TRUE,
          limits |-> [i \in DOMAIN limits \cup {ip} |->
                         IF i = ip THEN [count |-> 1, resetTime |-> t + RATE_WINDOW]
                         ELSE limits[i]]]
    ELSE IF limits[ip].count >= RATE_LIMIT
    THEN [ok |-> FALSE, limits |-> [limits EXCEPT ![ip].count = @ + 1]]
    ELSE [ok |-> TRUE, limits |-> [limits EXCEPT ![ip].count = @ + 1]]

checkRateLimit(limits, ip, t) ==
    IF ip \notin DOMAIN limits \/ t > limits[ip].resetTime
    THEN [ok |-> TRUE,
          limits |-> [i \in DOMAIN limits \cup {ip} |->
                         IF i = ip THEN [count |-> 1, resetTime |-> t + RATE_WINDOW]
                         ELSE limits[i]]]
    ELSE IF limits[ip].count >= RATE_LIMIT
    THEN [ok |-> FALSE, limits |-> limits]
    ELSE [ok |-> TRUE, limits |-> [limits EXCEPT ![ip].count = @ + 1]]

\* Mutation: a record exactly MAX_POSITION_AGE old is evicted.
expired_AtCutoff(record, cutoff) == record.timestamp <= cutoff

\* Mutation: a record is kept one millisecond longer.
expired_Late(record, cutoff) == record.timestamp < cutoff - 1

expired(record, cutoff) == record.timestamp < cutoff

RECURSIVE keepFresh(_, _)
keepFresh(game, cutoff) ==
    IF game = <<>> THEN <<>>
    ELSE IF expired(Head(game), cutoff) THEN keepFresh(Tail(game), cutoff)
    ELSE <<Head(game)>> \o keepFresh(Tail(game), cutoff)

\* Mutation: a game left without records is kept.
cleanGames_KeepsEmpty(data, t) ==
    [c \in DOMAIN data |-> keepFresh(data[c], t - MAX_POSITION_AGE)]

cleanGames(data, t) ==
    LET cutoff == t - MAX_POSITION_AGE
        left == {c \in DOMAIN data : keepFresh(data[c], cutoff) # <<>>}
    IN  [c \in left |-> keepFresh(data[c], cutoff)]

\* Mutation: an entry is deleted at its reset time already.
cleanLimits_AtReset(limits, t) ==
    [i \in {j \in DOMAIN limits : ~(t >= limits[j].resetTime)} |-> limits[i]]

cleanLimits(limits, t) ==
    [i \in {j \in DOMAIN limits : ~(t > limits[j].resetTime)} |-> limits[i]]

storedKeys(data) ==
    UNION {{<<c, data[c][i].playerId>> : i \in DOMAIN data[c]} : c \in DOMAIN data}

\* jsonResponse(data, status), with the handler that answered, the relay's
\* clock at the answer, the records the request's sweep evicted and, for an
\* accepted upsert, the record it replaced (history).
Answer(op, status, body) ==
    [op |-> op, status |-> status, body |-> body, replaced |-> NULL, at |-> now,
     evicted |-> {}, ip |-> ""]

NoResponse ==
    [op |-> "none", status |-> 0, body |-> <<>>, replaced |-> NULL, at |-> 0,
     evicted |-> {}, ip |-> ""]

\* The window of 60 seconds that the ip's first request opened is still running.
windowOpen(ip) ==
    IF ip \in DOMAIN windows THEN now <= windows[ip].opened + RATE_WINDOW ELSE FALSE

\* The windows after a request of the ip that was accepted (ok) or rejected.
countRequest(ip, ok) ==
    [i \in DOMAIN windows \cup {ip} |->
        IF i # ip THEN windows[i]
        ELSE IF ~windowOpen(ip)
        THEN [opened |-> now, accepted |-> IF ok THEN 1 ELSE 0]
        ELSE IF ok THEN [windows[ip] EXCEPT !.accepted = @ + 1]
        ELSE windows[ip]]

\* Every record of every game.
AllStored(data) == UNION {{data[c][i] : i \in DOMAIN data[c]} : c \in DOMAIN data}

\* handleRequest up to the answer or, for POST /updateLocation, up to
\* handleUpdateLocation's await request.json().
handleRequest(req) ==
    /\ IF req.method = "OPTIONS"
       THEN /\ response' = [Answer("options", 204, <<>>) EXCEPT !.ip = req.ip]
            /\ UNCHANGED <<gameData, rateLimitMap, pending, receipt, windows>>
       ELSE LET limit == checkRateLimit(rateLimitMap, req.ip, now)
                games == cleanGames(gameData, now)
            IN  IF ~limit.ok
                THEN /\ response' = [Answer("rateLimit", 429, <<"Rate limit exceeded">>)
                                      EXCEPT !.ip = req.ip]
                     /\ rateLimitMap' = limit.limits
                     /\ windows' = countRequest(req.ip, FALSE)
                     /\ UNCHANGED <<gameData, pending, receipt>>
                ELSE /\ rateLimitMap' = cleanLimits(limit.limits, now)
                     /\ windows' = countRequest(req.ip, TRUE)
                     /\ gameData' = games
                     /\ receipt' = [k \in DOMAIN receipt \cap storedKeys(games) |-> receipt[k]]
                     /\ IF req.path = "/updateLocation" /\ req.method = "POST"
                        THEN /\ pending' = pending \cup {req.body}
                             /\ response' = [NoResponse EXCEPT !.ip = req.ip]
                        ELSE /\ UNCHANGED pending
                             /\ response' =
                                  [IF req.path = "/locations" /\ req.method = "GET"
                                  THEN IF req.query = NULL \/ req.query = Some(<<>>)
                                       THEN Answer("locations", 400, <<"Missing gameCode parameter">>)
                                       ELSE Answer("locations", 200,
                                                [locations |-> getGame(games, sanitizeGameCode(req.query[1])),
                                                 count |-> Len(getGame(games, sanitizeGameCode(req.query[1])))])
                                  ELSE IF req.path = "/" \/ req.path = "/health"
                                  THEN Answer("health", 200,
                                           [status |-> "ok", activeGames |-> Cardinality(DOMAIN games)])
                                  ELSE Answer("notFound", 404, <<"Endpoint not found">>)
                                   EXCEPT !.evicted = AllStored(gameData) \ AllStored(games),
                                          !.ip = req.ip]
    /\ UNCHANGED <<now, clientVars>>

\* handleUpdateLocation after request.json() has resolved (data) or thrown (null).
handleUpdateLocation(body) ==
    /\ body \in pending
    /\ pending' = pending \ {body}
    /\ IF body = NULL
       THEN /\ response' = Answer("updateLocation", 400, <<"Invalid request data">>)
            /\ UNCHANGED <<gameData, receipt>>
       ELSE IF validate(body[1]) # ""
       THEN /\ response' = Answer("updateLocation", 400, <<validate(body[1])>>)
            /\ UNCHANGED <<gameData, receipt>>
       ELSE LET record == playerData(body[1], now)
                before == getGame(gameData, record.gameCode)
                game == gameSet(before, record)
            IN  /\ gameData' = putGame(gameData, record.gameCode, game)
                /\ receipt' = [k \in DOMAIN receipt \cup {<<record.gameCode, record.playerId>>} |->
                                 IF k = <<record.gameCode, record.playerId>> THEN now
                                 ELSE receipt[k]]
                /\ response' =
                       [Answer("updateLocation", 200,
                               [success |-> TRUE, playerCount |-> Len(game)])
                        EXCEPT !.replaced =
                            IF hasPlayer(before, record.playerId)
                            THEN Some(CHOOSE r \in {before[i] : i \in DOMAIN before} :
                                          r.playerId = record.playerId)
                            ELSE NULL]
    /\ UNCHANGED <<now, clientVars, rateLimitMap, windows>>

----------------------------------------------------------------------------
(* The client: the state after the page has loaded, and its handlers *)

Init ==
    /\ now = Epoch
    /\ playerId = NULL
    /\ playerName = <<>>
    /\ playerRole = ""
    /\ gameCode = <<>>
    /\ isActive = FALSE
    /\ startTime = 0
    /\ map = FALSE
    /\ playerMarker = NULL
    /\ otherMarkers = EmptyMap
    /\ updateInterval = NoHandle
    /\ timerInterval = NoHandle
    /\ lastPosition = NULL
    /\ watchId = NoHandle
    /\ screens = {"start"}
    /\ timerEl = [text |-> <<>>, className |-> ""]
    /\ endTitle = ""
    /\ endMessage = <<>>
    /\ loops = EmptyBag
    /\ sessions = 0
    /\ ev = [op |-> "load", active |-> FALSE, applied |-> FALSE, sent |-> FALSE,
             data |-> NULL, rendered |-> {}, evaluated |-> {},
             captured |-> <<>>, prevMarkers |-> EmptyMap, prevTitle |-> "",
             prevMessage |-> <<>>, prevPos |-> NULL]
    /\ gameData = EmptyMap
    /\ rateLimitMap = EmptyMap
    /\ pending = {}
    /\ receipt = EmptyMap
    /\ response = NoResponse
    /\ windows = EmptyMap

canCall == BagCardinality(loops) < MaxLoops

Next ==
    \/ \E n \in NameInputs, c \in CodeInputs, r \in RoleInputs :
           sessions < MaxSessions /\ canCall /\ startGame(n, c, r)
    \/ canCall /\ gameLoopTick
    \/ canCall /\ visibilityResume
    \/ \E l \in BagToSet(loops) : updateLocationDone(l)
    \/ \E l \in BagToSet(loops), data \in FewResponses : getLocationsDone(l, data)
    \/ updateTimer
    \/ \E c \in GpsSamples : handlePositionSuccess(c)
    \/ handlePositionError
    \/ \E b \in BOOLEAN : leaveGame(b)
    \/ newGame
    \/ \E t \in TimePoints : advanceClock(t)

Spec == Init /\ [][Next]_vars

\* The first session of a page, one gameLoop call in flight at a time, and every
\* snapshot.
NextEngine ==
    \/ \E r \in Roles : 
           sessions = 0 /\ loops = EmptyBag /\ startGame(<<"a">>, <<"a">>, r)
    \/ loops = EmptyBag /\ gameLoopTick
    \/ \E l \in BagToSet(loops) : updateLocationDone(l)
    \/ \E l \in BagToSet(loops), data \in Responses : getLocationsDone(l, data)
    \/ updateTimer
    \/ \E c \in GpsSamples : handlePositionSuccess(c)
    \/ \E b \in BOOLEAN : leaveGame(b)
    \/ newGame
    \/ \E t \in TimePoints : advanceClock(t)

SpecEngine == Init /\ [][NextEngine]_vars

----------------------------------------------------------------------------
(* The relay alone: requests of any client *)

RelayTimes == {Epoch, Epoch + MAX_POSITION_AGE}

Ips == {"ip1"}

Body1 ==
    [playerId |-> Str(P1), playerName |-> Str(<<"a">>), role |-> Str("hunter"),
     gameCode |-> Str(<<"a">>), lat |-> Num(0), lon |-> Num(0), accuracy |-> Num(10),
     timestamp |-> Num(Epoch)]

Body101 ==
    [playerId |-> Str(P101), playerName |-> Str(<<"k">>), role |-> Str("hunted"),
     gameCode |-> Str(<<"A">>), lat |-> Num(10), lon |-> Num(0), accuracy |-> Num(10),
     timestamp |-> Num(Epoch)]

\* A game code of eleven characters and one that differs in the eleventh.
LongCode == <<"a", "a", "a", "a", "a", "a", "a", "a", "a", "a", "b">>
LongCodeC == <<"a", "a", "a", "a", "a", "a", "a", "a", "a", "a", "c">>

\* Bodies the relay accepts: the client's clock may differ from the relay's.
GoodBodies ==
    {Body1, [Body1 EXCEPT !.accuracy = Missing],
     [Body1 EXCEPT !.timestamp = Num(Epoch - POSITION_DELAY)],
     Body101, [Body101 EXCEPT !.lat = Num(-LatMax), !.lon = Num(-LonMax)],
     [Body1 EXCEPT !.gameCode = Str(LongCode), !.lat = Num(LatMax), !.lon = Num(LonMax)],
     [Body1 EXCEPT !.gameCode = Str(<<>>)]}

BadBodies ==
    {[Body1 EXCEPT !.gameCode = Str(<<"b">>), !.lat = Num(LatMax + 1)],
     [Body1 EXCEPT !.lat = Num(-LatMax - 1)],
     [Body1 EXCEPT !.lat = Str(<<"0">>)],
     [Body1 EXCEPT !.lon = Num(-LonMax - 1)],
     [Body1 EXCEPT !.lon = Num(LonMax + 1)],
     [Body1 EXCEPT !.role = Str("spy")],
     [Body1 EXCEPT !.playerName = <<"null">>],
     [Body1 EXCEPT !.timestamp = Missing]}

UpdateBodies == GoodBodies \cup BadBodies

RelayRequests ==
    [method : {"POST"}, path : {"/updateLocation"}, ip : Ips, query : {NULL},
     body : {NULL} \cup {Some(b) : b \in UpdateBodies}]
    \cup
    [method : {"GET"}, path : {"/locations"}, ip : Ips,
     query : {NULL, Some(<<>>), Some(<<"a">>), Some(<<"c">>), Some(LongCodeC)},
     body : {NULL}]
    \cup
    [method : {"GET", "OPTIONS"}, path : {"/health", "/updateLocation"}, ip : Ips,
     query : {NULL}, body : {NULL}]

\* The address has requests left in the model's budget for its window.
withinBudget(ip) ==
    IF ip \notin DOMAIN rateLimitMap THEN TRUE
    ELSE rateLimitMap[ip].count < MaxRequests \/ now > rateLimitMap[ip].resetTime

NextRelay ==
    \/ \E req \in RelayRequests :
           /\ withinBudget(req.ip)
           /\ Cardinality(pending) < MaxPending
           /\ handleRequest(req)
    \/ \E body \in pending : handleUpdateLocation(body)
    \/ \E t \in RelayTimes : advanceClock(t)

SpecRelay == Init /\ [][NextRelay]_vars

----------------------------------------------------------------------------
(* The relay alone: upserts of one player in flight together *)

RaceBodies ==
    {Body1, [Body1 EXCEPT !.accuracy = Missing],
     [Body1 EXCEPT !.lat = Num(1), !.timestamp = Num(Epoch - POSITION_DELAY)],
     [Body1 EXCEPT !.role = Str("spy")]}

RaceRequests ==
    [method : {"POST"}, path : {"/updateLocation"}, ip : Ips, query : {NULL},
     body : {Some(b) : b \in RaceBodies}]
    \cup
    [method : {"GET"}, path : {"/locations"}, ip : Ips, query : {Some(<<"a">>)},
     body : {NULL}]

\* One more handler than MaxPending may be suspended on request.json().
NextRace ==
    \/ \E req \in RaceRequests :
           /\ Cardinality(pending) <= MaxPending
           /\ IF req.ip \in DOMAIN rateLimitMap
              THEN rateLimitMap[req.ip].count <= MaxRequests + MaxPending
              ELSE TRUE
           /\ handleRequest(req)
    \/ \E body \in pending : handleUpdateLocation(body)

SpecRace == Init /\ [][NextRace]_vars

----------------------------------------------------------------------------
(* The relay alone: records growing old *)

Minute == 60000

\* One minute less and one minute more than MAX_POSITION_AGE after Epoch, and
\* the two sides of the cutoff.
RetentionTimes ==
    {Epoch, Epoch + MAX_POSITION_AGE - Minute, Epoch + MAX_POSITION_AGE,
     Epoch + MAX_POSITION_AGE + 1, Epoch + MAX_POSITION_AGE + Minute}

RetentionRequests ==
    [method : {"POST"}, path : {"/updateLocation"}, ip : Ips, query : {NULL},
     body : {Some(Body1), Some([Body1 EXCEPT !.timestamp = Num(Epoch - POSITION_DELAY)]),
             Some(Body101)}]
    \cup
    [method : {"GET"}, path : {"/locations"}, ip : Ips, query : {Some(<<"a">>)},
     body : {NULL}]

NextRetention ==
    \/ \E req \in RetentionRequests :
           /\ withinBudget(req.ip)
           /\ Cardinality(pending) < MaxPending
           /\ handleRequest(req)
    \/ \E body \in pending : handleUpdateLocation(body)
    \/ \E t \in RetentionTimes : advanceClock(t)

SpecRetention == Init /\ [][NextRetention]_vars

----------------------------------------------------------------------------
(* The relay alone: two addresses and the rate limit *)

LimitIps == {"ip1", "ip2"}

\* The start of a window, its reset time and the millisecond after.
LimitTimes == {Epoch, Epoch + RATE_WINDOW, Epoch + RATE_WINDOW + 1}

\* A position that is MAX_POSITION_AGE old at Epoch.
OldBody == [Body1 EXCEPT !.timestamp = Num(Epoch - MAX_POSITION_AGE)]

\* The first address asks as often as it likes.
LimitRequests ==
    [method : {"GET", "OPTIONS"}, path : {"/health"}, ip : LimitIps, query : {NULL},
     body : {NULL}]
    \cup
    [method : {"POST"}, path : {"/updateLocation"}, ip : {"ip1"}, query : {NULL},
     body : {Some(OldBody)}]

NextLimit ==
    \/ \E req \in LimitRequests :
           /\ IF req.ip = "ip1" THEN TRUE ELSE withinBudget(req.ip)
           /\ Cardinality(pending) < MaxPending
           /\ handleRequest(req)
    \/ \E body \in pending : handleUpdateLocation(body)
    \/ \E t \in LimitTimes : advanceClock(t)

SpecLimit == Init /\ [][NextLimit]_vars

----------------------------------------------------------------------------
(* One client, the relay and an opponent: the first session of a page.     *)
(* A request is answered within the clock value at which it was sent, and  *)
(* the opponent's upserts fall between the client's gameLoop calls: an     *)
(* upsert of the opponent between the client's upsert and its snapshot     *)
(* request gives the snapshot that the same upsert gives before both.      *)

\* The request of updateLocation(lat, lon, accuracy), BACKEND_URL given
\* without a trailing slash.
updateLocationRequest ==
    [method |-> "POST", path |-> "/updateLocation", ip |-> "ip1", query |-> NULL,
     body |-> Some([playerId |-> Str(playerId), playerName |-> Str(playerName),
                    role |-> Str(playerRole), gameCode |-> Str(gameCode),
                    lat |-> Num(lastPosition[1].lat), lon |-> Num(lastPosition[1].lon),
                    accuracy |-> Num(lastPosition[1].accuracy),
                    timestamp |-> Num(now)])]

\* The text before the first "&" or "#".
RECURSIVE untilDelimiter(_)
untilDelimiter(t) ==
    IF t = <<>> THEN <<>>
    ELSE IF Head(t) \in {"&", "#"} THEN <<>>
    ELSE <<Head(t)>> \o untilDelimiter(Tail(t))

\* What url.searchParams.get('gameCode') gives for the URL
\* `.../locations?gameCode=${code}`, the code written into it as it is: the
\* value ends at "&" or "#", and "+" stands for a space.
searchParam(code) ==
    [i \in DOMAIN untilDelimiter(code) |->
        IF untilDelimiter(code)[i] = "+" THEN " " ELSE untilDelimiter(code)[i]]

\* The request of getLocations().
getLocationsRequest ==
    [method |-> "GET", path |-> "/locations", ip |-> "ip1",
     query |-> Some(searchParam(gameCode)), body |-> NULL]

\* The upsert of the opponent's gameLoop: another page of the same program,
\* in the game "A", at 50 or 55 metres from the client's position.
opponentRequest(role, lat) ==
    [method |-> "POST", path |-> "/updateLocation", ip |-> "ip2", query |-> NULL,
     body |-> Some([playerId |-> Str(P101), playerName |-> Str(<<"k">>),
                    role |-> Str(role), gameCode |-> Str(<<"A">>),
                    lat |-> Num(lat), lon |-> Num(0), accuracy |-> Num(10),
                    timestamp |-> Num(now)])]

OpponentLats == {10, 11}

\* The relay has stored an upsert of the player at the present clock value.
pushedNow(id) ==
    IF <<<<"A">>, id>> \in DOMAIN receipt THEN receipt[<<<<"A">>, id>>] = now ELSE FALSE

\* The relay's last answer is the snapshot the client has asked for.
answered ==
    response.op = "locations" /\ response.ip = "ip1" /\ response.at = now

\* What getLocations() resolves to for the answer.
resolved == IF response.status = 200 THEN Some(response.body.locations) ELSE NULL

\* The steps of the client and of the relay on the client's requests.  A
\* further sample at the same place would change only the fix's timestamp,
\* which no handler reads.
clientPlays ==
    \/ \E r \in Roles :
           sessions = 0 /\ loops = EmptyBag /\ startGame(<<"a">>, <<"a">>, r)
    \/ /\ loops = EmptyBag
       /\ lastPosition = NULL
       /\ handlePositionSuccess([latitude |-> 0, longitude |-> 0, accuracy |-> 10])
    \/ loops = EmptyBag /\ lastPosition # NULL /\ ~pushedNow(playerId) /\ gameLoopTick
    \/ \E l \in BagToSet(loops) :
           /\ l.pc = "updateLocation"
           /\ ~pushedNow(playerId)
           /\ pending = {}
           /\ handleRequest(updateLocationRequest)
    \/ \E body \in pending : handleUpdateLocation(body)
    \/ \E l \in BagToSet(loops) :
           pushedNow(playerId) /\ pending = {} /\ updateLocationDone(l)
    \/ \E l \in BagToSet(loops) :
           /\ l.pc = "getLocations"
           /\ ~answered
           /\ pending = {}
           /\ handleRequest(getLocationsRequest)
    \/ \E l \in BagToSet(loops) : answered /\ getLocationsDone(l, resolved)
    \/ updateTimer

opponentPushes(role, lat) ==
    /\ loops = EmptyBag
    /\ pending = {}
    /\ ~pushedNow(P101)
    /\ handleRequest(opponentRequest(role, lat))

\* The opponent pushes when it likes: it may lose its fix or leave.
PlayTimes ==
    {Epoch, Epoch + POSITION_DELAY - 1, Epoch + POSITION_DELAY, Epoch + GAME_DURATION}

NextPlay ==
    \/ clientPlays
    \/ \E role \in Roles, lat \in OpponentLats : opponentPushes(role, lat)
    \/ \E t \in PlayTimes : loops = EmptyBag /\ pending = {} /\ advanceClock(t)

SpecPlay == Init /\ [][NextPlay]_vars

\* Normal play: the client starts at Epoch, the opponent has the other role,
\* and both push their position in every gameLoop period until the game is
\* over.
NextNormalPlay ==
    \/ clientPlays
    \/ /\ sessions = 1
       /\ opponentPushes(IF playerRole = "hunter" THEN "hunted" ELSE "hunter", 11)
    \/ /\ loops = EmptyBag
       /\ pending = {}
       /\ pushedNow(playerId)
       /\ pushedNow(P101)
       /\ now < Epoch + GAME_DURATION
       /\ advanceClock(now + UPDATE_INTERVAL)

SpecNormalPlay == Init /\ [][NextNormalPlay]_vars

----------------------------------------------------------------------------
(* One client and the relay: the gameLoop calls of the first session, with *)
(* game codes as the user may type them and requests that may fail.        *)

CycleCodes == {<<"a">>, <<"a", "&", "b">>, <<"a", "+", "b">>}

CycleTimes == {Epoch, Epoch + UPDATE_INTERVAL}

\* The relay has stored an upsert of the client at the present clock value.
storedNow ==
    IF <<sanitizeGameCode(gameCode), playerId>> \in DOMAIN receipt
    THEN receipt[<<sanitizeGameCode(gameCode), playerId>>] = now
    ELSE FALSE

NextCycle ==
    \/ \E c \in CycleCodes, r \in Roles :
           sessions = 0 /\ loops = EmptyBag /\ startGame(<<"a">>, c, r)
    \/ /\ loops = EmptyBag
       /\ lastPosition = NULL
       /\ handlePositionSuccess([latitude |-> 0, longitude |-> 0, accuracy |-> 10])
    \/ loops = EmptyBag /\ gameLoopTick
    \/ \E l \in BagToSet(loops) :
           /\ l.pc = "updateLocation"
           /\ ~storedNow
           /\ pending = {}
           /\ handleRequest(updateLocationRequest)
    \/ \E body \in pending : handleUpdateLocation(body)
    \/ \E l \in BagToSet(loops) : pending = {} /\ updateLocationDone(l)
    \/ \E l \in BagToSet(loops) :
           /\ l.pc = "getLocations"
           /\ ~answered
           /\ pending = {}
           /\ handleRequest(getLocationsRequest)
    \/ \E l \in BagToSet(loops) : answered /\ getLocationsDone(l, resolved)
    \/ \E l \in BagToSet(loops) : getLocationsDone(l, NULL)
    \/ \E t \in CycleTimes : loops = EmptyBag /\ pending = {} /\ advanceClock(t)

SpecCycle == Init /\ [][NextCycle]_vars

----------------------------------------------------------------------------
(* The client alone, sessions that start at Epoch, under fairness: while   *)
(* its interval is set the countdown fires again and again, and time       *)
(* passes.                                                                 *)

tick == \E t \in TimePoints : advanceClock(t)

NextLive ==
    \/ \E n \in NameInputs, c \in CodeInputs, r \in RoleInputs :
           sessions < MaxSessions /\ canCall /\ now = Epoch /\ startGame(n, c, r)
    \/ canCall /\ gameLoopTick
    \/ canCall /\ visibilityResume
    \/ \E l \in BagToSet(loops) : updateLocationDone(l)
    \/ \E l \in BagToSet(loops), data \in FewResponses : getLocationsDone(l, data)
    \/ updateTimer
    \/ \E c \in GpsSamples : handlePositionSuccess(c)
    \/ handlePositionError
    \/ \E b \in BOOLEAN : leaveGame(b)
    \/ newGame
    \/ tick

SpecLive == Init /\ [][NextLive]_vars /\ WF_vars(updateTimer) /\ WF_vars(tick)

----------------------------------------------------------------------------
(* The client alone: the countdown of sessions that start at any of these  *)
(* times.                                                                  *)

\* Remaining times of a session started at Epoch: 10:00, 9:59, 9:00, 1:05,
\* 1:00, 0:59, 0:00, and the end.
TimerTimes ==
    {Epoch, Epoch + 1, Epoch + 60000, Epoch + 535000, Epoch + 540000, Epoch + 540001,
     Epoch + GAME_DURATION - 1, Epoch + GAME_DURATION, Epoch + GAME_DURATION + 1}

NextTimer ==
    \/ \E r \in Roles :
           sessions < MaxSessions /\ loops = EmptyBag /\ startGame(<<"a">>, <<"a">>, r)
    \/ \E l \in BagToSet(loops) : getLocationsDone(l, NULL)
    \/ updateTimer
    \/ leaveGame(TRUE)
    \/ newGame
    \/ \E t \in TimerTimes : advanceClock(t)

SpecTimer == Init /\ [][NextTimer]_vars

----------------------------------------------------------------------------
(* Properties *)

\* The last handler was a getLocations() continuation that went through
\* updateOtherPlayers with a snapshot.
SnapshotApplied == ev.op = "getLocationsDone" /\ ev.data # NULL /\ map

AppliedRecords == {ev.data[1][i] : i \in DOMAIN ev.data[1]}

Opposite(r) == r.playerId # playerId /\ r.role \in Roles \ {playerRole}

Age(r) == now - r.timestamp

InReach(r) ==
    MetresPerUnit * MetresPerUnit *
        ((r.lat - lastPosition[1].lat) * (r.lat - lastPosition[1].lat)
         + (r.lon - lastPosition[1].lon) * (r.lon - lastPosition[1].lon))
    <= CAPTURE_DISTANCE * CAPTURE_DISTANCE

MarkerKept(id) ==
    /\ id \in DOMAIN otherMarkers <=> id \in DOMAIN ev.prevMarkers
    /\ id \in DOMAIN otherMarkers => otherMarkers[id] = ev.prevMarkers[id]

OutcomeKept ==
    /\ isActive = ev.active
    /\ endTitle = ev.prevTitle
    /\ endMessage = ev.prevMessage

\* C1: every record the relay stores carries the relay's own receipt time as
\* its timestamp, whatever timestamp the request body supplied.
C1_StoredTimestampIsReceiptTime ==
    \A c \in DOMAIN gameData : \A i \in DOMAIN gameData[c] :
        gameData[c][i].timestamp = receipt[<<c, gameData[c][i].playerId>>]

\* C2: when a snapshot is applied, an opposite-role record of another player
\* gets its marker set in that call iff its age is at least POSITION_DELAY; a
\* younger record leaves its marker as it was and is not measured for capture.
C2_RenderedIffOldEnough ==
    SnapshotApplied =>
        \A r \in AppliedRecords :
            Opposite(r) =>
                /\ r.playerId \in ev.rendered <=> Age(r) >= POSITION_DELAY
                /\ Age(r) >= POSITION_DELAY =>
                       /\ r.playerId \in DOMAIN otherMarkers
                       /\ otherMarkers[r.playerId] = <<r.lat, r.lon>>
                /\ Age(r) < POSITION_DELAY =>
                       /\ MarkerKept(r.playerId)
                       /\ r.playerId \notin ev.evaluated
                       /\ \A i \in DOMAIN ev.captured : ev.captured[i] # r

\* C2 witness: one snapshot with an opponent exactly POSITION_DELAY old, shown,
\* and one a millisecond younger, not shown.
C2_Witness ==
    /\ SnapshotApplied
    /\ \E r, q \in AppliedRecords :
           /\ Opposite(r) /\ Age(r) = POSITION_DELAY /\ r.playerId \in ev.rendered
           /\ r.playerId \in DOMAIN otherMarkers
           /\ Opposite(q) /\ Age(q) = POSITION_DELAY - 1 /\ q.playerId \notin ev.rendered
           /\ q.playerId \notin DOMAIN otherMarkers

C4_VictoryIffCapture ==
    (SnapshotApplied /\ lastPosition # NULL) =>
        IF /\ playerRole = "hunter"
           /\ \E r \in AppliedRecords :
                  Opposite(r) /\ Age(r) >= POSITION_DELAY /\ InReach(r)
        THEN ~isActive /\ endTitle = "Victory!" /\ endMessage[1] = "You captured"
        ELSE OutcomeKept

\* C4 witness: a hunter's session ends in victory over an opponent exactly
\* CAPTURE_DISTANCE away.
C4_Witness ==
    /\ SnapshotApplied
    /\ lastPosition # NULL
    /\ playerRole = "hunter"
    /\ ev.active
    /\ \A r \in AppliedRecords :
           /\ Opposite(r)
           /\ Age(r) >= POSITION_DELAY
           /\ calculateDistance(lastPosition[1].lat, lastPosition[1].lon, r.lat, r.lon)
                  = CAPTURE_DISTANCE
    /\ AppliedRecords # {}
    /\ endTitle = "Victory!"

\* C5: a snapshot applied while no own position exists measures nothing and
\* leaves the outcome alone, and still sets the marker of every visible
\* opponent.
C5_NoPositionNoCapture ==
    (SnapshotApplied /\ lastPosition = NULL) =>
        /\ OutcomeKept
        /\ ev.evaluated = {}
        /\ \A r \in AppliedRecords :
               (Opposite(r) /\ Age(r) >= POSITION_DELAY) =>
                   /\ r.playerId \in DOMAIN otherMarkers
                   /\ otherMarkers[r.playerId] = <<r.lat, r.lon>>

\* C5 witness: an active hunter without a fix gets the marker of a hunted
\* player and stays active.
C5_Witness ==
    /\ SnapshotApplied
    /\ lastPosition = NULL
    /\ playerRole = "hunter"
    /\ isActive
    /\ \E r \in AppliedRecords :
           /\ Opposite(r) /\ Age(r) >= POSITION_DELAY
           /\ r.playerId \in DOMAIN otherMarkers
           /\ r.playerId \notin DOMAIN ev.prevMarkers

\* C6: a countdown tick on an active session ends it with the timeout outcome
\* iff now - startTime >= GAME_DURATION, whatever the role; otherwise the
\* session stays active with its outcome untouched.
C6_TimeoutIffElapsed ==
    (ev.op = "updateTimer" /\ ev.active) =>
        IF now - startTime >= GAME_DURATION
        THEN /\ ~isActive
             /\ endTitle = "Time's Up!"
             /\ endMessage = <<"Time's up! Hunted players survived.">>
        ELSE OutcomeKept /\ isActive

\* C6 witness: the tick at elapsed = GAME_DURATION ends a session whose tick at
\* elapsed = GAME_DURATION - 1 (remaining 1 ms, shown as 0:00) did not.
C6_Witness ==
    /\ ev.op = "updateTimer"
    /\ ev.active
    /\ now - startTime = GAME_DURATION
    /\ timerEl.text = <<0, 0, 0>>
    /\ ~isActive
    /\ endTitle = "Time's Up!"

\* C7: once a session has ended, nothing but newGame and the next startGame
\* touches it: no later handler replaces the outcome or the end message.
C7_EndedIsTerminal ==
    (~ev.active /\ ev.prevTitle # "" /\ ev.op # "startGame") =>
        /\ ~isActive
        /\ endTitle = ev.prevTitle
        /\ endMessage = ev.prevMessage

\* C8: whenever the session is not active, the poll interval, the countdown
\* interval and the position watch are all cleared, and no poll tick,
\* countdown tick or provider callback runs on a session that is not active.
C8_EndedHasNoTasks ==
    /\ ~isActive =>
           /\ updateInterval = NoHandle
           /\ timerInterval = NoHandle
           /\ watchId = NoHandle
    /\ ev.op \in {"gameLoop", "visibilitychange", "updateTimer",
                  "handlePositionSuccess", "handlePositionError"} => ev.active

\* C8 witness: endGame has just ended an active session that had all three
\* tasks running.
C8_Witness ==
    /\ ev.active
    /\ ~isActive
    /\ ev.op \in {"getLocationsDone", "updateTimer", "leaveGame"}
    /\ updateInterval = NoHandle /\ timerInterval = NoHandle /\ watchId = NoHandle

\* C9: the continuation of a gameLoop call that resumes after the session has
\* ended sends no relay request and does not apply the snapshot: the markers
\* stay as they were and no capture is evaluated.
C9_NoEffectAfterEnd ==
    /\ (ev.op = "updateLocationDone" /\ ~ev.active) => ~ev.sent
    /\ (ev.op = "getLocationsDone" /\ ~ev.active) =>
           /\ ~ev.applied
           /\ otherMarkers = ev.prevMarkers
           /\ ev.evaluated = {}

CaughtAt ==
    {i \in DOMAIN ev.data[1] :
        /\ Opposite(ev.data[1][i])
        /\ Age(ev.data[1][i]) >= POSITION_DELAY
        /\ InReach(ev.data[1][i])}

FirstCaught == ev.data[1][CHOOSE i \in CaughtAt : \A j \in CaughtAt : i <= j]

\* C11: when the snapshot a hunter applies holds several visible opponents
\* within CAPTURE_DISTANCE of the own position, the victory message names the
\* first of them in snapshot order.
C11_FirstCapturedNamed ==
    (/\ SnapshotApplied
     /\ playerRole = "hunter"
     /\ lastPosition # NULL
     /\ CaughtAt # {})
    => endMessage = <<"You captured", FirstCaught.playerName>>

\* C12: startGame on the start screen starts a session only when the trimmed
\* name, the trimmed game code and the role are all present; otherwise it
\* leaves the whole session state as it was and starts no gameLoop call, no
\* timer and no position watch.
C12_StartNeedsAllFields ==
    [][\A n \in NameInputs, c \in CodeInputs, r \in RoleInputs :
          startGame(n, c, r) =>
              IF /\ \E i \in DOMAIN n : n[i] # " "
                 /\ \E i \in DOMAIN c : c[i] # " "
                 /\ r \in Roles
              THEN /\ ~isActive /\ isActive'
                   /\ playerId' # NULL /\ playerId' # playerId
                   /\ startTime' = now
                   /\ playerRole' = r
                   /\ updateInterval' # NoHandle
                   /\ timerInterval' # NoHandle
                   /\ watchId' # NoHandle
              ELSE UNCHANGED <<playerId, playerName, playerRole, gameCode, isActive,
                               startTime, map, playerMarker, otherMarkers,
                               updateInterval, timerInterval, lastPosition, watchId,
                               screens, timerEl, endTitle, endMessage, loops,
                               sessions>>]_vars

\* C12 witness: a startGame that was refused on a page that never had a
\* session, after an earlier handler had run.
C12_Witness ==
    /\ ev.op = "startGame"
    /\ ~ev.sent
    /\ ~isActive
    /\ playerId = NULL
    /\ startTime = 0
    /\ updateInterval = NoHandle /\ timerInterval = NoHandle /\ watchId = NoHandle
    /\ loops = EmptyBag
    /\ screens = {"start"}
    /\ now > Epoch

----------------------------------------------------------------------------
(* Properties of the relay *)

Present(v) == v[1] # "undefined" /\ v[1] # "null"

\* The body parsed, and it holds what the relay asks for.
WellFormed(b) ==
    /\ b # NULL
    /\ \A f \in {"playerId", "playerName", "role", "gameCode", "lat", "lon", "timestamp"} :
           Present(b[1][f])
    /\ b[1].lat[1] = "number"
    /\ b[1].lat[2] >= -LatMax /\ b[1].lat[2] <= LatMax
    /\ b[1].lon[1] = "number"
    /\ b[1].lon[2] >= -LonMax /\ b[1].lon[2] <= LonMax
    /\ b[1].role[2] \in {"hunter", "hunted"}

\* The uppercase, first-ten-characters form of a game code.
Norm(t) == [i \in 1..(IF Len(t) < 10 THEN Len(t) ELSE 10) |-> upperChar(t[i])]

RecordsOf(data, c) == IF c \in DOMAIN data THEN {data[c][i] : i \in DOMAIN data[c]} ELSE {}

AllRecords(data) == UNION {RecordsOf(data, c) : c \in DOMAIN data}

\* The record made of one body alone.
ExpectedRecord(d) ==
    [playerId |-> d.playerId[2], playerName |-> d.playerName[2], role |-> d.role[2],
     gameCode |-> Norm(d.gameCode[2]), lat |-> d.lat[2], lon |-> d.lon[2],
     accuracy |-> IF Present(d.accuracy) THEN d.accuracy[2] ELSE 0,
     timestamp |-> d.timestamp[2]]

IsUpsert(req) == req.method = "POST" /\ req.path = "/updateLocation"

IsList(req) == req.method = "GET" /\ req.path = "/locations"

SeqToSet(q) == {q[i] : i \in DOMAIN q}

\* C14: an upsert that passed the rate limit is answered 200 and stored iff
\* its body holds all seven required fields non-null, a numeric lat in
\* [-90, 90], a numeric lon in [-180, 180] and a role of hunter or hunted, the
\* boundary values included; every other body is answered 400.
C14_AcceptedIffWellFormed ==
    [][\A b \in pending :
          handleUpdateLocation(b) =>
              IF WellFormed(b)
              THEN /\ response'.status = 200
                   /\ \E r \in RecordsOf(gameData', Norm(b[1].gameCode[2])) :
                          /\ r.playerId = b[1].playerId[2]
                          /\ r.lat = b[1].lat[2]
                          /\ r.lon = b[1].lon[2]
              ELSE response'.status = 400]_vars

\* C14 witness: the upsert with lat = 90 and lon = 180 was accepted and is the
\* only record of its game.
C14_Witness ==
    /\ response.op = "updateLocation"
    /\ response.status = 200
    /\ response.replaced = NULL
    /\ response.body.playerCount = 1
    /\ \E c \in DOMAIN gameData :
           /\ Len(gameData[c]) = 1
           /\ gameData[c][1].lat = LatMax
           /\ gameData[c][1].lon = LonMax
           /\ receipt[<<c, gameData[c][1].playerId>>] = now

\* C15: an upsert that fails validation is answered with a client error and
\* changes nothing: the sweep of its request only removes records, and after
\* the sweep no game is created and no record is created or overwritten.
C15_RejectedUpsertStoresNothing ==
    [][/\ \A req \in RelayRequests :
              (IsUpsert(req) /\ req.body \in pending' /\ handleRequest(req)) =>
                  /\ DOMAIN gameData' \subseteq DOMAIN gameData
                  /\ \A c \in DOMAIN gameData' :
                         RecordsOf(gameData', c) \subseteq RecordsOf(gameData, c)
       /\ \A b \in pending :
              (handleUpdateLocation(b) /\ ~WellFormed(b)) =>
                  /\ response'.status = 400
                  /\ gameData' = gameData]_vars

\* C15 witness: an upsert was refused for its latitude while other games are
\* stored and the game it names is not.
C15_Witness ==
    /\ response.op = "updateLocation"
    /\ response.status = 400
    /\ response.body = <<"Invalid latitude">>
    /\ gameData # EmptyMap
    /\ <<"B">> \notin DOMAIN gameData

NothingExpired ==
    \A r \in AllRecords(gameData) : r.timestamp >= now - MAX_POSITION_AGE

\* C18: a listing for a game code that has no stored game is answered 200
\* with no locations and count 0, and creates no game: the games after it are
\* games that were there before, all of them when the sweep evicts nothing.
C18_UnknownGameListsEmpty ==
    [][\A req \in RelayRequests :
          (/\ IsList(req)
           /\ req.query # NULL
           /\ req.query # Some(<<>>)
           /\ Norm(req.query[1]) \notin DOMAIN gameData
           /\ response'.op = "locations"
           /\ handleRequest(req)) =>
              /\ response'.status = 200
              /\ response'.body.locations = <<>>
              /\ response'.body.count = 0
              /\ Norm(req.query[1]) \notin DOMAIN gameData'
              /\ DOMAIN gameData' \subseteq DOMAIN gameData
              /\ NothingExpired => gameData' = gameData]_vars

\* C18 witness: an empty listing was answered while another game is stored.
C18_Witness ==
    /\ response.op = "locations"
    /\ response.status = 200
    /\ response.body.count = 0
    /\ response.body.locations = <<>>
    /\ gameData # EmptyMap

\* The records an answer to a listing returns.
Returned(answer) ==
    IF answer.status = 200 THEN SeqToSet(answer.body.locations) ELSE {}

\* C19: a listing for any game code given in the request returns exactly the
\* stored records whose game code has the same uppercase, first-ten-characters
\* form, and every stored record's gameCode field is that form and the game it
\* is stored under.
C19_SameNormalFormOnReadAndWrite ==
    [][/\ \A req \in RelayRequests :
              (/\ IsList(req)
               /\ req.query # NULL
               /\ response'.op = "locations"
               /\ handleRequest(req)) =>
                  Returned(response')
                      = {r \in AllRecords(gameData') : r.gameCode = Norm(req.query[1])}
       /\ \A c \in DOMAIN gameData' :
              \A r \in RecordsOf(gameData', c) : r.gameCode = c /\ Norm(c) = c]_vars

\* C20: a listing returns every record of its game that was received at most
\* MAX_POSITION_AGE less a minute ago and none that was received at least
\* MAX_POSITION_AGE plus a minute ago, whatever timestamp the body carried.
C20_RetentionFromReceipt ==
    [][\A req \in RetentionRequests :
          (/\ IsList(req)
           /\ response'.op = "locations"
           /\ response'.status = 200
           /\ handleRequest(req)) =>
              \A k \in DOMAIN receipt :
                  k[1] = Norm(req.query[1]) =>
                      /\ now - receipt[k] <= MAX_POSITION_AGE - Minute =>
                             \E r \in SeqToSet(response'.body.locations) : r.playerId = k[2]
                      /\ now - receipt[k] >= MAX_POSITION_AGE + Minute =>
                             \A r \in SeqToSet(response'.body.locations) : r.playerId # k[2]]_vars

----------------------------------------------------------------------------
(* Properties of the client, continued *)

\* The last handler was a provider error, the return of an upsert (its result,
\* the answer or null, is dropped) or a snapshot request that failed.
TransientError ==
    \/ ev.op = "handlePositionError"
    \/ ev.op = "updateLocationDone"
    \/ ev.op = "getLocationsDone" /\ ev.data = NULL

\* C26: a provider error, a returned or failed upsert and a failed snapshot
\* request leave the session as it was: still active with both intervals and
\* the watch running when it was active, the outcome, lastPosition and the
\* opponent markers unchanged, so that the next poll tick pushes and pulls
\* again.
C26_TransientErrorsKeepSession ==
    TransientError =>
        /\ OutcomeKept
        /\ lastPosition = ev.prevPos
        /\ otherMarkers = ev.prevMarkers
        /\ ev.active =>
               /\ isActive
               /\ updateInterval # NoHandle
               /\ timerInterval # NoHandle
               /\ watchId # NoHandle

\* C26 witness: a snapshot request failed on an active session that has a fix
\* and an opponent marker, and all of it is still there.
C26_Witness ==
    /\ ev.op = "getLocationsDone"
    /\ ev.data = NULL
    /\ ev.active
    /\ isActive
    /\ lastPosition # NULL
    /\ DOMAIN otherMarkers # {}
    /\ updateInterval # NoHandle /\ timerInterval # NoHandle /\ watchId # NoHandle

\* C29: after a snapshot is applied, every opponent marker belongs to an
\* opposite-role player other than the local one that is in that snapshot; a
\* marker of a player that is absent from it or now has the local role is gone.
C29_MarkersWithinSnapshot ==
    SnapshotApplied =>
        DOMAIN otherMarkers \subseteq {r.playerId : r \in {q \in AppliedRecords : Opposite(q)}}

\* C29 witness: a snapshot that holds a formerly shown player under the local
\* role, and lacks another formerly shown player, has removed both markers.
C29_Witness ==
    /\ SnapshotApplied
    /\ ev.active
    /\ \E r \in AppliedRecords :
           /\ r.playerId \in DOMAIN ev.prevMarkers
           /\ r.role = playerRole
           /\ r.playerId \notin DOMAIN otherMarkers
    /\ \E id \in DOMAIN ev.prevMarkers :
           /\ \A r \in AppliedRecords : r.playerId # id
           /\ id \notin DOMAIN otherMarkers

----------------------------------------------------------------------------
(* Properties of the relay, continued *)

\* C21: no record of a listing is older, by its stored timestamp, than
\* MAX_POSITION_AGE at the relay's clock of the answer; a record exactly
\* MAX_POSITION_AGE old may be listed.
C21_ListingHoldsNoExpiredRecord ==
    (response.op = "locations" /\ response.status = 200) =>
        \A r \in SeqToSet(response.body.locations) :
            response.at - r.timestamp <= MAX_POSITION_AGE

\* C21 witness: a listing that holds a record exactly MAX_POSITION_AGE old,
\* answered by a request whose sweep evicted an older record of the same game.
C21_Witness ==
    /\ response.op = "locations"
    /\ response.status = 200
    /\ \E r \in SeqToSet(response.body.locations) :
           response.at - r.timestamp = MAX_POSITION_AGE
    /\ \E r \in response.evicted :
           /\ response.at - r.timestamp > MAX_POSITION_AGE
           /\ r.gameCode = <<"A">>

\* C22: no stored game is without records, and the activeGames of a health
\* answer is the number of games that hold at least one record.
C22_NoEmptyGame ==
    /\ \A c \in DOMAIN gameData : gameData[c] # <<>>
    /\ (response.op = "health" /\ response.status = 200) =>
           response.body.activeGames
               = Cardinality({c \in DOMAIN gameData : Len(gameData[c]) >= 1})

\* C22 witness: a health request whose sweep evicted the last record of the
\* only game reports no active game.
C22_Witness ==
    /\ response.op = "health"
    /\ response.status = 200
    /\ response.evicted # {}
    /\ response.body.activeGames = 0
    /\ gameData = EmptyMap

\* C30: whatever the order in which suspended upserts of one player resume,
\* the stored record is, field for field, the record made of one accepted
\* body, and the upsert that stores last fixes it: the body of a handler that
\* is still suspended leaves no trace in it.
C30_LastStoreWins ==
    [][/\ \A r \in AllRecords(gameData') :
              \E b \in RaceBodies : WellFormed(Some(b)) /\ r = ExpectedRecord(b)
       /\ \A b \in pending :
              (handleUpdateLocation(b) /\ WellFormed(b)) =>
                  /\ RecordsOf(gameData', Norm(b[1].gameCode[2])) = {ExpectedRecord(b[1])}
                  /\ pending' = pending \ {b}]_vars

\* C30 witness: an upsert whose request arrived while another of the same
\* player was suspended has stored its record over an earlier one, and the
\* other, different in lat, accuracy and timestamp, is still suspended.
C30_Witness ==
    /\ response.op = "updateLocation"
    /\ response.status = 200
    /\ response.replaced # NULL
    /\ \E b \in pending :
           /\ WellFormed(b)
           /\ ExpectedRecord(b[1]) \notin AllRecords(gameData)
           /\ ExpectedRecord(b[1]) # response.replaced[1]
           /\ \E r \in AllRecords(gameData) :
                  /\ r.playerId = b[1].playerId[2]
                  /\ r.lat # b[1].lat[2]
                  /\ r.timestamp # b[1].timestamp[2]

\* C23: a request other than OPTIONS is rejected with 429 exactly when its
\* address has RATE_LIMIT accepted requests in a window of 60 seconds that is
\* still running; a request after the window has run out is accepted and opens
\* a new window; and no window ever counts more than RATE_LIMIT accepted
\* requests.
C23_SixtyPerWindow ==
    [][\A req \in LimitRequests :
           (req.method # "OPTIONS" /\ response'.ip = req.ip /\ handleRequest(req)) =>
               /\ (response'.status = 429)
                      <=> (windowOpen(req.ip) /\ windows[req.ip].accepted >= RATE_LIMIT)
               /\ ~windowOpen(req.ip) =>
                      windows'[req.ip] = [opened |-> now, accepted |-> 1]
               /\ windows'[req.ip].accepted <= RATE_LIMIT]_vars

\* C23 witness: in a window opened after the first had run out, an address
\* with RATE_LIMIT accepted requests is rejected.
C23_Witness ==
    /\ response.status = 429
    /\ windows[response.ip].opened > Epoch
    /\ windows[response.ip].accepted = RATE_LIMIT

\* C24: a rejected request leaves the games, their records, every rate-limit
\* entry and the suspended upserts as they were.
C24_RejectedMutatesNothing ==
    [][\A req \in LimitRequests :
           (response'.status = 429 /\ handleRequest(req)) =>
               UNCHANGED <<gameData, rateLimitMap, pending, receipt>>]_vars

\* C24 witness: a request is rejected at the reset time of its window while a
\* record older than MAX_POSITION_AGE is still stored.
C24_Witness ==
    /\ response.status = 429
    /\ response.at = now
    /\ now = rateLimitMap[response.ip].resetTime
    /\ rateLimitMap[response.ip].count = RATE_LIMIT
    /\ \E r \in AllStored(gameData) : expired(r, now - MAX_POSITION_AGE)

\* C25: a request of one address changes neither the outcome of the next
\* request of another address, whenever that request is made, nor the entry
\* that request leaves for its address.
C25_WindowsIndependent ==
    [][\A req \in LimitRequests :
           (response'.ip = req.ip /\ handleRequest(req)) =>
               \A a \in LimitIps \ {req.ip} :
                   \A t \in {u \in LimitTimes : u >= now} :
                       /\ checkRateLimit(rateLimitMap', a, t).ok
                              = checkRateLimit(rateLimitMap, a, t).ok
                       /\ checkRateLimit(rateLimitMap', a, t).limits[a]
                              = checkRateLimit(rateLimitMap, a, t).limits[a]]_vars

\* C25 witness: the sweep of an accepted request of the second address has
\* deleted the entry of the first, whose last window was full.
C25_Witness ==
    /\ response.ip = "ip2"
    /\ response.status = 200
    /\ "ip1" \in DOMAIN windows
    /\ "ip1" \notin DOMAIN rateLimitMap
    /\ windows["ip1"].accepted = RATE_LIMIT

\* The relay's records of hunted players of the client's game that are
\* POSITION_DELAY old and within CAPTURE_DISTANCE of the client's fix.
Catchable ==
    {r \in RecordsOf(gameData, gameCode) :
        /\ r.playerId # playerId
        /\ r.role = "hunted"
        /\ Age(r) >= POSITION_DELAY
        /\ InReach(r)}

\* The last handler was the end of a gameLoop call of an active hunter who
\* had a fix when the call polled the relay.
HunterPolled ==
    /\ ev.op = "getLocationsDone"
    /\ ev.active
    /\ playerRole = "hunter"
    /\ ev.prevPos # NULL
    /\ lastPosition # NULL

C28_OpponentShownByTimeout ==
    (~isActive /\ endTitle = "Time's Up!") => P101 \in DOMAIN otherMarkers

\* C31: a gameLoop call starts with the upsert exactly when a fix exists, asks
\* for the snapshot only after the upsert has returned, and a snapshot it
\* applies after the relay has stored its upsert holds the record of the
\* session's own player.
C31_PushThenPull ==
    /\ (ev.op = "gameLoop") =>
           \A l \in BagToSet(loops) : (l.pc = "updateLocation") <=> (lastPosition # NULL)
    /\ (ev.op = "updateLocationDone") => \A l \in BagToSet(loops) : l.pc = "getLocations"
    /\ (ev.op = "getLocationsDone" /\ ev.applied /\ answered /\ storedNow) =>
           \E i \in DOMAIN ev.data[1] : ev.data[1][i].playerId = playerId

\* C32: when a gameLoop call that was made in an earlier session gets its
\* snapshot, no marker is created, moved or removed, no capture is evaluated
\* and the session is not ended.
C32_SnapshotForItsSession ==
    [][\A l \in BagToSet(loops), data \in FewResponses :
           (l.session # playerId /\ getLocationsDone(l, data)) =>
               /\ ~ev'.applied
               /\ otherMarkers' = otherMarkers
               /\ isActive' = isActive
               /\ endTitle' = endTitle]_vars

\* The opponents of the applied snapshot whose record is younger than
\* POSITION_DELAY and who had a marker before the snapshot was applied.
HeldBack ==
    {r \in AppliedRecords :
        Opposite(r) /\ Age(r) < POSITION_DELAY /\ r.playerId \in DOMAIN ev.prevMarkers}

\* C33: an opponent who has a marker and whose record in the applied snapshot
\* is younger than POSITION_DELAY keeps the marker where it was, and no
\* distance to that record is computed and no capture made of it.
C33_YoungRecordKeepsMarker ==
    SnapshotApplied =>
        \A r \in HeldBack :
            /\ r.playerId \in DOMAIN otherMarkers
            /\ otherMarkers[r.playerId] = ev.prevMarkers[r.playerId]
            /\ r.playerId \notin ev.rendered
            /\ r.playerId \notin ev.evaluated
            /\ \A i \in DOMAIN ev.captured : ev.captured[i].playerId # r.playerId

\* C33 witness: a hunter with a fix has applied a snapshot whose young record
\* places the opponent elsewhere than the marker, within CAPTURE_DISTANCE.
C33_Witness ==
    /\ SnapshotApplied
    /\ playerRole = "hunter"
    /\ lastPosition # NULL
    /\ \E r \in HeldBack :
           /\ <<r.lat, r.lon>> # ev.prevMarkers[r.playerId]
           /\ InReach(r)
           /\ otherMarkers[r.playerId] = ev.prevMarkers[r.playerId]

\* C34: an active session ends, and a countdown tick at or after
\* GAME_DURATION from the start leaves no session active.
C34_SessionEnds ==
    /\ [](ev.op = "updateTimer" /\ now - startTime >= GAME_DURATION => ~isActive)
    /\ (isActive ~> ~isActive)

\* C34 witness: the countdown has ended a session that never had a fix and
\* whose last snapshot request had failed.
C34_Witness ==
    /\ ev.op = "updateTimer"
    /\ ev.active
    /\ ~isActive
    /\ endTitle = "Time's Up!"
    /\ lastPosition = NULL
    /\ otherMarkers = EmptyMap

\* The record's stored timestamp is not before now - MAX_POSITION_AGE.
InRetention(r) == r.timestamp >= now - MAX_POSITION_AGE

\* C35: the sweep of an accepted request leaves of every game exactly the
\* records whose stored timestamp is not before now - MAX_POSITION_AGE, in
\* their order and with all their fields, and exactly the games that still
\* hold a record.
C35_SweepIsExact ==
    [][\A req \in RelayRequests :
           (/\ now' = now
            /\ req.method # "OPTIONS"
            /\ IF IsUpsert(req) THEN response'.op = "none" /\ pending' = pending \cup {req.body}
               ELSE IF IsList(req) THEN response'.op = "locations"
               ELSE response'.op \in {"health", "notFound"}
            /\ handleRequest(req)) =>
               /\ DOMAIN gameData'
                      = {c \in DOMAIN gameData : \E i \in DOMAIN gameData[c] :
                                                     InRetention(gameData[c][i])}
               /\ \A c \in DOMAIN gameData' :
                      gameData'[c] = SelectSeq(gameData[c], InRetention)]_vars

\* C35 witness: a sweep has evicted the only record of one game and kept, in
\* another game, a record that is exactly MAX_POSITION_AGE old.
C35_Witness ==
    /\ response.op \in {"locations", "health", "notFound"}
    /\ response.at = now
    /\ \E r \in response.evicted : r.gameCode \notin DOMAIN gameData
    /\ \E r \in AllStored(gameData) : now - r.timestamp = MAX_POSITION_AGE

\* The records of a game other than those of one player, in their order.
RECURSIVE OthersIn(_, _)
OthersIn(game, id) ==
    IF game = <<>> THEN <<>>
    ELSE IF Head(game).playerId = id THEN OthersIn(Tail(game), id)
    ELSE <<Head(game)>> \o OthersIn(Tail(game), id)

\* C36: an accepted upsert for player p of game g leaves every other game as
\* it was and, in g, every record of another player as it was and where it
\* was; and the answer to a listing is made of the records of the game asked
\* for alone.
C36_UpsertTouchesOneRecord ==
    [][/\ \A b \in pending :
              (/\ response'.op = "updateLocation"
               /\ response'.status = 200
               /\ WellFormed(b)
               /\ handleUpdateLocation(b)) =>
                  LET g == Norm(b[1].gameCode[2])
                      p == b[1].playerId[2]
                  IN  /\ DOMAIN gameData' = DOMAIN gameData \cup {g}
                      /\ \A c \in DOMAIN gameData : c # g => gameData'[c] = gameData[c]
                      /\ OthersIn(gameData'[g], p)
                             = OthersIn(IF g \in DOMAIN gameData THEN gameData[g] ELSE <<>>, p)
       /\ \A req \in RelayRequests :
              (/\ IsList(req)
               /\ response'.op = "locations"
               /\ response'.status = 200
               /\ handleRequest(req)) =>
                  response'.body.locations
                      = IF Norm(req.query[1]) \in DOMAIN gameData
                        THEN SelectSeq(gameData[Norm(req.query[1])], InRetention)
                        ELSE <<>>]_vars

\* C36 witness: an upsert has replaced a record of a game that holds another
\* player's record, while another game is stored.
C36_Witness ==
    /\ response.op = "updateLocation"
    /\ response.status = 200
    /\ response.replaced # NULL
    /\ response.body.playerCount >= 2
    /\ Cardinality(DOMAIN gameData) >= 2

\* The last handler was a startGame that started a session.
Started == ev.op = "startGame" /\ ev.sent

\* C37: newGame leaves no own position, no marker and no map; a session
\* starts with an id no earlier session had, with the present time as its
\* start time, without a position and without markers; and a position the
\* page holds was never taken before the start of the latest session.
C37_NewSessionStartsClean ==
    /\ (ev.op = "newGame") =>
           lastPosition = NULL /\ otherMarkers = EmptyMap /\ playerMarker = NULL /\ ~map
    /\ Started =>
           /\ playerId = generateId(sessions - 1)
           /\ \A n \in 0..(sessions - 2) : playerId # generateId(n)
           /\ startTime = now
           /\ lastPosition = NULL
           /\ otherMarkers = EmptyMap
           /\ timerEl.text = formatTime(GAME_DURATION)
    /\ (sessions >= 1 /\ lastPosition # NULL) => lastPosition[1].timestamp >= startTime

\* C37 witness: a second session has started, later than the first, which a
\* capture had ended.
C37_Witness ==
    /\ Started
    /\ sessions = 2
    /\ startTime > Epoch
    /\ endTitle = "Victory!"
    /\ lastPosition = NULL
    /\ otherMarkers = EmptyMap

\* The time left of the session.
Remaining == GAME_DURATION - (now - startTime)

\* minutes:seconds, the seconds with two digits.
Shown(remaining) ==
    <<remaining \div 60000,
      (((remaining \div 1000) % 60) \div 10),
      (((remaining \div 1000) % 60) % 10)>>

\* C38: a countdown tick with time left writes that time, which is above 0
\* and at most GAME_DURATION, as minutes:seconds; a tick with no time left
\* writes nothing and ends the session; and so does the timer write of
\* startGame.
C38_CountdownInRange ==
    [][/\ updateTimer =>
              IF Remaining > 0
              THEN /\ Remaining <= GAME_DURATION
                   /\ timerEl'.text = Shown(Remaining)
                   /\ timerEl'.text[1] \in 0..10
                   /\ timerEl'.text[2] \in 0..5
                   /\ timerEl'.text[3] \in 0..9
                   /\ isActive' = isActive
              ELSE timerEl' = timerEl /\ ~isActive'
       /\ (ev'.op = "startGame" /\ ev'.sent) => timerEl'.text = Shown(GAME_DURATION)]_vars

\* C38 witness: with one minute and five seconds left the timer, in its
\* warning colour, shows 1:05.
C38_Witness ==
    /\ ev.op = "updateTimer"
    /\ isActive
    /\ Remaining = 65000
    /\ timerEl = [text |-> <<1, 0, 5>>, className |-> "timer warning"]

====
